---- MODULE Spec2Model ----
(***************************************************************************)
(* Model of script.js, the webcam mood visualizer: the async init(), the   *)
(* camera plumbing (startCamera / stopCamera / camera change), the         *)
(* requestAnimationFrame render loop around human.detect, the mirror and   *)
(* theme toggles and the keyboard shortcuts.                               *)
(*                                                                         *)
(* Every await of the script is a suspension point: the code before it and *)
(* the continuation after it are separate atomic actions, because the      *)
(* browser runs each of them to completion on its single thread and may    *)
(* run any other handler in between.                                       *)
(***************************************************************************)
EXTENDS Integers, Sequences, FiniteSets

\* ------------------------------------------------------------------ bounds
\* Asynchronous activities of the page in flight at one time: startCamera
\* invocations suspended at an await, and loop chains (an iteration awaiting
\* human.detect, or a scheduled frame callback).
MaxAsync == 2
\* Detector scores are k / ScoreUnit for k in 0..ScoreUnit.
ScoreUnit == 1
\* Faces in one detection result.
MaxFaces == 1

\* MediaStream identities: at most one per startCamera invocation in flight.
StreamIds == 1..MaxAsync
\* requestAnimationFrame handles: one per loop chain.
RafIds == 1..MaxAsync

\* Emotion labels of the detector (a sample of them).
Emotions == {"happy", "sad"}
\* Video input devices enumerateDevices may report.
DeviceLists == {<<>>, <<"cam1">>, <<"cam1", "cam2">>}
\* Keys the user may press (one that has no shortcut included).
Keys == {"s", "x", "c", "m", "t", "q"}

Null == 0

VARIABLES
    initPc,        \* where the async init() stands
    cameraSelect,  \* els.cameraSelect: [options, value]
    stream,        \* the global `stream`: Null or a stream id
    running,       \* the global `running`
    rafId,         \* the global `rafId`: Null or a handle
    live,          \* browser: streams whose video track is live
    gumPending,    \* startCamera invocations awaiting getUserMedia (line 90)
    playPending,   \* startCamera invocations awaiting video.play() (line 95)
    playAborted,   \* browser: of those, the ones whose play() was interrupted
    detecting,     \* loop invocations awaiting human.detect (line 160)
    rafQueue,      \* browser: handles of scheduled frame callbacks
    els,           \* the widgets the script writes
    dataTheme,     \* document.body's data-theme attribute
    localStorage,  \* persistent storage: the set of its <<key, value>> items
    lastResult,    \* history: the result the last completed iteration painted
    overlap,       \* history: a pending startCamera overlapped another one
    stopped        \* history: a stop event was handled, no start event since

vars == <<initPc, cameraSelect, stream, running, rafId, live, gumPending,
          playPending, playAborted, detecting, rafQueue, els, dataTheme, localStorage,
          lastResult, overlap, stopped>>

\* ------------------------------------------------------------ pure helpers
Min(a, b) == IF a < b THEN a ELSE b
Max(a, b) == IF a > b THEN a ELSE b

\* A CSS percentage with one decimal, "w.t%", is the pair <<w, t>>; a
\* percentage written without decimals, "w%", is <<w>>.
\* pct(v) = `${(v * 100).toFixed(1)}%` for v = k / ScoreUnit.
pct(k) ==
    LET tenths == (2000 * k + ScoreUnit) \div (2 * ScoreUnit)
    IN  <<tenths \div 10, tenths % 10>>

clamp01(k) == Max(0, Min(ScoreUnit, k))

\* A comparator with the operands swapped: it sorts by ascending score.
byScoreAsc(a, b) == a.score - b.score

\* The comparator of line 177: (a, b) => b.score - a.score.
byScoreDesc(a, b) == b.score - a.score

\* Array.prototype.sort with that comparator: a stable sort, here by
\* insertion (an element goes after every element it does not precede).
RECURSIVE InsertSorted(_, _)
InsertSorted(e, s) ==
    IF s = <<>> THEN <<e>>
    ELSE IF byScoreDesc(Head(s), e) > 0
         THEN <<e>> \o s
         ELSE <<Head(s)>> \o InsertSorted(e, Tail(s))

RECURSIVE sort(_)
sort(list) ==
    IF list = <<>> THEN <<>>
    ELSE InsertSorted(list[Len(list)], sort(SubSeq(list, 1, Len(list) - 1)))

\* const top = [...emotions].sort(...)[0]
Top(emotions) == sort(emotions)[1]


\* ------------------------------------------------------- detector results
Scores == 0..ScoreUnit

Entries == [emotion : Emotions, score : Scores]

\* The emotion list of a face: entries with pairwise different labels.
EmotionLists ==
    {<<>>} \cup {<<e>> : e \in Entries}
           \cup {<<p[1], p[2]>> : p \in {q \in Entries \X Entries : q[1].emotion # q[2].emotion}}

\* A face with no emotion field, and the faces that carry one.
BareFace == [box |-> "box"]
Faces == {BareFace} \cup {[box |-> "box", emotion |-> l] : l \in EmotionLists}

\* result.face: no face, or a primary face followed by further faces.
RECURSIVE FaceSeqs(_)
FaceSeqs(n) ==
    IF n = 0 THEN {<<>>}
    ELSE FaceSeqs(n - 1) \cup
         {<<f>> \o rest : f \in Faces,
                          rest \in {s \in FaceSeqs(n - 1) : \A i \in DOMAIN s : s[i] = BareFace}}

\* What human.detect may resolve with.
Results == {[face |-> fs] : fs \in FaceSeqs(MaxFaces)}

\* The value of lastResult before any iteration has completed.
NoResult == [face |-> <<>>, none |-> TRUE]

\* ------------------------------------------------------------- persistence
None == "none"

\* localStorage as the set of its <<key, value>> items.
getItem(store, key) ==
    IF \E p \in store : p[1] = key
    THEN (CHOOSE p \in store : p[1] = key)[2]
    ELSE None

setItem(store, key, value) ==
    {p \in store : p[1] # key} \cup {<<key, value>>}

\* A toggle that has no default: anything but 'dark' is written back as is.
nextThemeKeep(cur) == IF cur = "dark" THEN "light" ELSE cur

\* const next = cur === 'dark' ? 'light' : 'dark';
nextTheme(cur) == IF cur = "dark" THEN "light" ELSE "dark"

\* ------------------------------------------------------------------ widgets
\* The em dash the script shows for "no mood".
Dash == "--"
NoMood == [text |-> "Mood: ", emotion |-> Dash, pct |-> <<>>]
Muted == <<[class |-> "muted", name |-> "No face detected.", pct |-> <<>>]>>

\* renderEmotions(list): the rows left in els.emotionList.
renderEmotions(list) ==
    IF Len(list) = 0 THEN Muted
    ELSE [i \in 1..Len(list) |->
            [class |-> "emotion", name |-> list[i].emotion, pct |-> pct(list[i].score)]]

\* An applyMirror() that forgets the overlay canvas.
applyMirrorVideoOnly(e) ==
    LET scale == IF e.mirrorChecked THEN "scaleX(-1)" ELSE "scaleX(1)"
    IN  [e EXCEPT !.videoTransform = scale]

\* applyMirror(): both transforms follow the checkbox.
applyMirror(e) ==
    LET scale == IF e.mirrorChecked THEN "scaleX(-1)" ELSE "scaleX(1)"
    IN  [e EXCEPT !.videoTransform = scale, !.overlayTransform = scale]

\* The 'm' shortcut: flip the checkbox, then applyMirror().
keyMirror(e) == applyMirror([e EXCEPT !.mirrorChecked = ~e.mirrorChecked])

\* const emotions = faces[0]?.emotion || [];
emotionsOf(faces) ==
    IF Len(faces) = 0 THEN <<>>
    ELSE IF "emotion" \in DOMAIN faces[1] THEN faces[1].emotion ELSE <<>>

\* Lines 163-191 of loop(): what one iteration paints for a result.
paint(e, result) ==
    LET faces == result.face
        emotions == emotionsOf(faces)
        summary == [e EXCEPT !.facesText = <<Len(faces)>>,
                             !.facesBar = <<Min(100, (Len(faces) * 100) \div 5)>>,
                             !.emotionList = renderEmotions(emotions),
                             !.fpsText = "fps"]
    IN  IF Len(emotions) # 0
        THEN LET top == Top(emotions)
             IN  [summary EXCEPT
                    !.moodBadge = [text |-> "Mood: ", emotion |-> top.emotion,
                                   pct |-> pct(top.score)],
                    !.topMood = top.emotion,
                    !.topConf = pct(clamp01(top.score))]
        ELSE [summary EXCEPT !.moodBadge = NoMood,
                             !.topMood = Dash,
                             !.topConf = <<0>>]

\* A loop() that returns without calling the detector.
loopNever(run, n) == n

\* The synchronous head of loop() (lines 157-160): the number of iterations
\* awaiting human.detect after loop() was entered with `run` and `n` of them.
loop(run, n) == IF ~run THEN n ELSE n + 1

\* requestAnimationFrame: a handle no scheduled callback uses.  (The handle
\* is stored in rafId at once, line 193, so the value of a callback that has
\* run, which only rafId could still hold, may be handed out again.)
freshRaf == CHOOSE id \in RafIds : id \notin rafQueue
                                   /\ \A j \in RafIds : j < id => j \in rafQueue

\* getUserMedia: the streams the browser may hand out next.
FreeStreams == {s \in StreamIds : s \notin live \cup {stream}
                                  /\ \A j \in StreamIds : j < s => j \in live \cup {stream}}

\* stream.getTracks().forEach(t => t.stop())
stopTracks(liveSet, s) == liveSet \ {s}

Chains == detecting + Cardinality(rafQueue)

\* startCamera invocations suspended at one of their awaits.
Pending == gumPending + playPending + playAborted

\* ---------------------------------------------------------------- initial
Init ==
    /\ initPc = "load"
    /\ cameraSelect = [options |-> <<>>, value |-> ""]
    /\ stream = Null
    /\ running = FALSE
    /\ rafId = Null
    /\ live = {}
    /\ gumPending = 0
    /\ playPending = 0
    /\ playAborted = 0
    /\ detecting = 0
    /\ rafQueue = {}
    /\ \E checked \in BOOLEAN :
          els = [mirrorChecked |-> checked, videoTransform |-> "",
                 overlayTransform |-> "", facesText |-> <<>>, facesBar |-> <<>>,
                 emotionList |-> <<>>,
                 moodBadge |-> [text |-> "", emotion |-> "", pct |-> <<>>],
                 topMood |-> "", topConf |-> <<>>, fpsText |-> ""]
    /\ localStorage \in {{}, {<<"theme", "dark">>}, {<<"theme", "light">>}}
    /\ dataTheme = getItem(localStorage, "theme")
    /\ lastResult = NoResult
    /\ overlap = FALSE
    /\ stopped = FALSE

\* ----------------------------------------------------------------- init()
\* await human.load() settles (line 48).
InitLoad ==
    /\ initPc = "load"
    /\ \/ initPc' = "warmup"
       \/ initPc' = "failed"
    /\ UNCHANGED <<cameraSelect, stream, running, rafId, live, gumPending,
                   playPending, playAborted, detecting, rafQueue, els, dataTheme,
                   localStorage, lastResult, overlap, stopped>>

\* await human.warmup() settles (line 49).
InitWarmup ==
    /\ initPc = "warmup"
    /\ \/ initPc' = "perm"
       \/ initPc' = "failed"
    /\ UNCHANGED <<cameraSelect, stream, running, rafId, live, gumPending,
                   playPending, playAborted, detecting, rafQueue, els, dataTheme,
                   localStorage, lastResult, overlap, stopped>>

\* The temporary permission request settles (lines 57-60): a stream that is
\* granted has its tracks stopped in the same continuation; a refusal is
\* ignored. listCameras() is then entered and awaits enumerateDevices.
InitPermission ==
    /\ initPc = "perm"
    /\ \/ \E tmp \in FreeStreams : live' = stopTracks(live \cup {tmp}, tmp)
       \/ live' = live
    /\ initPc' = "list"
    /\ UNCHANGED <<cameraSelect, stream, running, rafId, gumPending,
                   playPending, playAborted, detecting, rafQueue, els, dataTheme,
                   localStorage, lastResult, overlap, stopped>>

\* enumerateDevices settles (lines 66-83): the options are rebuilt from the
\* video inputs (the disabled "No camera found" entry selects nothing); a
\* rejection leaves the select as it was.
InitListCameras ==
    /\ initPc = "list"
    /\ \/ \E cams \in DeviceLists :
            cameraSelect' = [options |-> cams,
                             value |-> IF Len(cams) = 0 THEN "" ELSE cams[1]]
       \/ cameraSelect' = cameraSelect
    /\ initPc' = "done"
    /\ UNCHANGED <<stream, running, rafId, live, gumPending, playPending, playAborted,
                   detecting, rafQueue, els, dataTheme, localStorage,
                   lastResult, overlap, stopped>>

\* ------------------------------------------------------------- the camera
\* stopCamera() (lines 109-115), on the five variables it writes.
stopCamera ==
    /\ running' = FALSE
    /\ rafQueue' = IF rafId # Null THEN rafQueue \ {rafId} ELSE rafQueue
    /\ rafId' = Null
    /\ live' = IF stream # Null THEN stopTracks(live, stream) ELSE live
    /\ stream' = Null

\* startCamera() up to its first await (lines 87-90): stopCamera(), then the
\* getUserMedia request.
startCamera ==
    /\ Pending + Chains < MaxAsync
    /\ stopCamera
    /\ gumPending' = gumPending + 1
    /\ overlap' = (Pending > 0)
    /\ UNCHANGED <<initPc, playPending, playAborted, detecting, els, dataTheme,
                   localStorage, lastResult>>

\* getUserMedia resolves (lines 90-95): the stream is stored in the global
\* and in video.srcObject, and video.play() is awaited.  Assigning srcObject
\* loads the element anew, which interrupts the play() calls still pending:
\* the browser rejects them (AbortError).
GumResolve ==
    /\ gumPending > 0
    /\ \E s \in FreeStreams :
          /\ stream' = s
          /\ live' = live \cup {s}
    /\ gumPending' = gumPending - 1
    /\ playAborted' = playAborted + playPending
    /\ playPending' = 1
    /\ UNCHANGED <<initPc, cameraSelect, running, rafId, detecting, rafQueue,
                   els, dataTheme, localStorage, lastResult, overlap, stopped>>

\* getUserMedia rejects: the catch branch alerts and returns (lines 103-106).
GumReject ==
    /\ gumPending > 0
    /\ gumPending' = gumPending - 1
    /\ UNCHANGED <<initPc, cameraSelect, stream, running, rafId, live,
                   playPending, playAborted, detecting, rafQueue, els, dataTheme,
                   localStorage, lastResult, overlap, stopped>>

\* video.play() resolves (lines 96-102): applyMirror(), running = true and
\* loop(), which runs up to its await of human.detect.
PlayResolve ==
    /\ playPending > 0
    /\ playPending' = playPending - 1
    /\ playAborted' = playAborted
    /\ els' = applyMirror(els)
    /\ running' = TRUE
    /\ detecting' = loop(TRUE, detecting)
    /\ UNCHANGED <<initPc, cameraSelect, stream, rafId, live, gumPending,
                   rafQueue, dataTheme, localStorage, lastResult, overlap,
                   stopped>>

\* video.play() rejects: the catch branch alerts and returns (lines 103-106).
PlayReject ==
    /\ \/ /\ playPending > 0
          /\ playPending' = playPending - 1
          /\ playAborted' = playAborted
       \/ /\ playAborted > 0
          /\ playAborted' = playAborted - 1
          /\ playPending' = playPending
    /\ UNCHANGED <<initPc, cameraSelect, stream, running, rafId, live,
                   gumPending, detecting, rafQueue, els, dataTheme,
                   localStorage, lastResult, overlap, stopped>>

\* ---------------------------------------------------------- the render loop
\* human.detect resolves with `result` (lines 160-193): the iteration paints
\* and schedules the next frame.
LoopResume(result) ==
    /\ detecting > 0
    /\ detecting' = detecting - 1
    /\ els' = paint(els, result)
    /\ lastResult' = result
    /\ rafId' = freshRaf
    /\ rafQueue' = rafQueue \cup {freshRaf}
    /\ UNCHANGED <<initPc, cameraSelect, stream, running, live, gumPending,
                   playPending, playAborted, dataTheme, localStorage, overlap, stopped>>

\* The browser runs the frame callback `id`: loop() up to its return or its
\* await (lines 157-160).
RafFire(id) ==
    /\ id \in rafQueue
    /\ rafQueue' = rafQueue \ {id}
    /\ detecting' = loop(running, detecting)
    /\ UNCHANGED <<initPc, cameraSelect, stream, running, rafId, live,
                   gumPending, playPending, playAborted, els, dataTheme, localStorage,
                   lastResult, overlap, stopped>>

\* ------------------------------------------------------------ the handlers
\* snapshot() (lines 117-127) composes a canvas of its own and downloads it:
\* it writes none of the page's state.
snapshot == UNCHANGED vars

\* The click handler of themeToggle (lines 206-211).
themeToggle ==
    /\ dataTheme' = nextTheme(dataTheme)
    /\ localStorage' = setItem(localStorage, "theme", nextTheme(dataTheme))
    /\ UNCHANGED <<initPc, cameraSelect, stream, running, rafId, live,
                   gumPending, playPending, playAborted, detecting, rafQueue, els,
                   lastResult, overlap, stopped>>

StartBtnClick ==
    /\ startCamera
    /\ stopped' = FALSE
    /\ UNCHANGED cameraSelect

StopBtnClick ==
    /\ stopCamera
    /\ stopped' = TRUE
    /\ UNCHANGED <<initPc, cameraSelect, gumPending, playPending, playAborted, detecting,
                   els, dataTheme, localStorage, lastResult, overlap>>

SnapBtnClick == snapshot

\* The user picks another camera (lines 200-202).
CameraSelectChange ==
    /\ \E i \in DOMAIN cameraSelect.options :
          /\ cameraSelect.options[i] # cameraSelect.value
          /\ cameraSelect' = [cameraSelect EXCEPT !.value = cameraSelect.options[i]]
    /\ stopped' = FALSE
    /\ IF stream # Null
       THEN startCamera
       ELSE UNCHANGED <<initPc, stream, running, rafId, live, gumPending,
                        playPending, playAborted, detecting, rafQueue, els, dataTheme,
                        localStorage, lastResult, overlap>>

\* The user clicks the mirror checkbox: it flips, then `change` runs
\* applyMirror (line 203).
MirrorToggleChange ==
    /\ els' = applyMirror([els EXCEPT !.mirrorChecked = ~els.mirrorChecked])
    /\ UNCHANGED <<initPc, cameraSelect, stream, running, rafId, live,
                   gumPending, playPending, playAborted, detecting, rafQueue, dataTheme,
                   localStorage, lastResult, overlap, stopped>>

ThemeToggleClick == themeToggle

\* The keydown handler (lines 214-221).
KeyDown(key) ==
    CASE key = "s" -> startCamera /\ stopped' = FALSE /\ UNCHANGED cameraSelect
      [] key = "x" -> /\ stopCamera
                      /\ stopped' = TRUE
                      /\ UNCHANGED <<initPc, cameraSelect, gumPending,
                                     playPending, playAborted, detecting, els, dataTheme,
                                     localStorage, lastResult, overlap>>
      [] key = "c" -> snapshot
      [] key = "m" -> /\ els' = keyMirror(els)
                      /\ UNCHANGED <<initPc, cameraSelect, stream, running,
                                     rafId, live, gumPending, playPending, playAborted,
                                     detecting, rafQueue, dataTheme,
                                     localStorage, lastResult, overlap, stopped>>
      [] key = "t" -> themeToggle
      [] OTHER -> UNCHANGED vars

\* The detection results the page is driven with: a frame without a face
\* and a frame with one face.
Frames ==
    {[face |-> <<>>],
     [face |-> <<[box |-> "box",
                  emotion |-> <<[emotion |-> "sad", score |-> 0],
                                [emotion |-> "happy", score |-> ScoreUnit]>>]>>]}

Next ==
    \/ InitLoad
    \/ InitWarmup
    \/ InitPermission
    \/ InitListCameras
    \/ StartBtnClick
    \/ StopBtnClick
    \/ SnapBtnClick
    \/ CameraSelectChange
    \/ \E key \in Keys : KeyDown(key)
    \/ MirrorToggleChange
    \/ ThemeToggleClick
    \/ GumResolve
    \/ GumReject
    \/ PlayResolve
    \/ PlayReject
    \/ \E result \in Frames : LoopResume(result)
    \/ \E id \in RafIds : RafFire(id)

Spec == Init /\ [][Next]_vars

\* The page under the scheduling the render loop relies on: every
\* human.detect call is answered and the browser runs every scheduled frame
\* callback.
FairSpec ==
    /\ Init
    /\ [][Next]_vars
    /\ WF_vars(\E result \in Frames : LoopResume(result))
    /\ WF_vars(\E id \in RafIds : RafFire(id))

\* The render loop alone, over every detection result: the camera has just
\* been started (startCamera ran to its end), and from there the detector
\* answers, frames fire and the user may stop.
PaintInit ==
    /\ initPc = "done"
    /\ cameraSelect \in {[options |-> <<>>, value |-> ""],
                         [options |-> <<"cam1">>, value |-> "cam1"]}
    /\ stream = 1
    /\ running = TRUE
    /\ rafId = Null
    /\ live = {1}
    /\ gumPending = 0
    /\ playPending = 0
    /\ playAborted = 0
    /\ detecting = 1
    /\ rafQueue = {}
    /\ \E checked \in BOOLEAN :
          els = applyMirror(
                [mirrorChecked |-> checked, videoTransform |-> "",
                 overlayTransform |-> "", facesText |-> <<>>, facesBar |-> <<>>,
                 emotionList |-> <<>>,
                 moodBadge |-> [text |-> "", emotion |-> "", pct |-> <<>>],
                 topMood |-> "", topConf |-> <<>>, fpsText |-> ""])
    /\ localStorage = {}
    /\ dataTheme = getItem(localStorage, "theme")
    /\ lastResult = NoResult
    /\ overlap = FALSE
    /\ stopped = FALSE

PaintNext ==
    \/ \E result \in Results : LoopResume(result)
    \/ \E id \in RafIds : RafFire(id)
    \/ StopBtnClick

PaintSpec == PaintInit /\ [][PaintNext]_vars

\* ------------------------------------------------------------------ claims
Scale(checked) == IF checked THEN "scaleX(-1)" ELSE "scaleX(1)"

ModelsReady == initPc \in {"perm", "list", "done"}

\* C1: there is at most one loop chain (an iteration in flight or a pending
\* frame callback), hence at most one human.detect call outstanding.
C1_SingleLoop == Chains <= 1 /\ detecting <= 1

\* C2: after a completed iteration the mood badge and topMood name an entry
\* of the primary face's emotion list whose score is at least every other
\* entry's; with no face or an empty list they show the dash and the
\* confidence bar is 0%.
C2_MoodBadge ==
    lastResult \in Results =>
        LET emotions == emotionsOf(lastResult.face)
        IN  IF Len(emotions) # 0
            THEN \E i \in 1..Len(emotions) :
                    /\ els.topMood = emotions[i].emotion
                    /\ els.moodBadge.emotion = emotions[i].emotion
                    /\ \A j \in 1..Len(emotions) :
                          emotions[i].score >= emotions[j].score
            ELSE /\ els.moodBadge = NoMood
                 /\ els.topMood = Dash
                 /\ els.topConf = <<0>>

\* C2 witness: an iteration painted a list whose second entry outscores the
\* first, and the badge names the second.
C2_Witness ==
    /\ lastResult \in Results
    /\ Len(emotionsOf(lastResult.face)) = 2
    /\ emotionsOf(lastResult.face)[2].score > emotionsOf(lastResult.face)[1].score
    /\ els.topMood = emotionsOf(lastResult.face)[2].emotion
    /\ els.moodBadge.emotion = els.topMood

\* C3: a step changes persistent storage only if it is the theme toggle, and
\* then only the key 'theme' is written, with 'dark' or 'light'.
C3_OnlyThemePersisted ==
    [][localStorage' # localStorage =>
          /\ themeToggle
          /\ \E v \in {"dark", "light"} :
                localStorage' = setItem(localStorage, "theme", v)]_vars

\* C3 witness: the loop has painted, the camera was stopped, the mirror was
\* applied and the store holds the theme and nothing else.
C3_Witness ==
    /\ lastResult \in Frames
    /\ stopped
    /\ els.videoTransform # ""
    /\ dataTheme = "light"
    /\ localStorage = {<<"theme", "light">>}

\* C4: once a stop event was handled and no start or camera-change event
\* followed it, the camera is off: running is false, stream is null and no
\* track is live.  (Each of the three is stable without further events, so a
\* state that breaks one is never followed by the state the claim promises.)
C4_StopStops == stopped => (~running /\ stream = Null /\ live = {})

\* C5: an iteration paints only while running is true.
C5_PaintsOnlyWhileRunning ==
    [][(\E result \in Frames : LoopResume(result)) => running]_vars

\* C6: whenever running is true a loop chain exists, and if running stays
\* true from some point on, iterations keep completing.
C6_NeverStalls ==
    /\ [](running => Chains >= 1)
    /\ (<>[]running => []<><<\E result \in Frames : LoopResume(result)>>_vars)

\* C6 witness: the camera runs, an iteration has completed and the next
\* frame callback is pending.
C6_Witness ==
    /\ running
    /\ lastResult \in Frames
    /\ detecting = 0
    /\ rafQueue # {}

\* C7: a startCamera invocation that ends in its catch branch and overlapped
\* no other invocation leaves running false, starts no loop and leaves no
\* live track in stream.
C7_FailedStartLeavesOff ==
    [][((GumReject \/ PlayReject) /\ ~overlap) =>
          /\ ~running'
          /\ detecting' = detecting
          /\ (stream' = Null \/ stream' \notin live')]_vars

\* C8 as claimed: the two transforms are equal, follow the checkbox after
\* every mirror change, 'm' press and successful start, and a second 'm'
\* press restores the checked state and the transform.
C8_MirrorAligned ==
    /\ [](els.videoTransform = els.overlayTransform)
    /\ [][(MirrorToggleChange \/ KeyDown("m") \/ PlayResolve) =>
             els'.videoTransform = Scale(els'.mirrorChecked)]_vars
    /\ [][KeyDown("m") =>
             /\ keyMirror(els').mirrorChecked = els.mirrorChecked
             /\ keyMirror(els').videoTransform = els.videoTransform
             /\ keyMirror(els').overlayTransform = els.overlayTransform]_vars

\* C8 amended: as above, but the second 'm' press restores the transform only
\* if a transform had been applied before the first press.
C8_MirrorAlignedOnceApplied ==
    /\ [](els.videoTransform = els.overlayTransform)
    /\ [][(MirrorToggleChange \/ KeyDown("m") \/ PlayResolve) =>
             els'.videoTransform = Scale(els'.mirrorChecked)]_vars
    /\ [][KeyDown("m") =>
             /\ keyMirror(els').mirrorChecked = els.mirrorChecked
             /\ (els.videoTransform # "" =>
                    /\ keyMirror(els').videoTransform = els.videoTransform
                    /\ keyMirror(els').overlayTransform = els.overlayTransform)]_vars

\* C8 witness: the camera was started with the mirror on.
C8_Witness ==
    /\ running
    /\ els.mirrorChecked
    /\ els.videoTransform = "scaleX(-1)"
    /\ els.overlayTransform = "scaleX(-1)"

\* C9: every live track belongs to the stream held in `stream`.
C9_NoLeakedStream == \A s \in live : s = stream

\* C10: human.detect is called, and running is true, only after load() and
\* warmup() have completed.
C10_DetectorReady == (detecting > 0 \/ running) => ModelsReady

====
